---- MODULE Spec2Model ----
(***************************************************************************)
(* Shopmate: product, cart and order services plus the frontend (edge)     *)
(* service, over three key-value tables.                                   *)
(*                                                                         *)
(* A request is a record in reqs; its pc names the next downstream call    *)
(* (store operation or sibling-service call) it is suspended on.  One      *)
(* action = one downstream call together with the synchronous handler code *)
(* that follows it up to the next await.  Each table operation (Get, Put)  *)
(* is atomic per key and reads observe the latest write.                   *)
(* Prices are kept in cents (699.99 is 69999).  Timestamps (updatedAt,     *)
(* date) are not modelled.                                                 *)
(***************************************************************************)
EXTENDS Integers, Sequences, FiniteSets, TLC

\* ------------------------------------------------------------------ bounds
MaxRequests == 3

MaxShopRequests == 3

MaxCatalogRequests == 3

MaxOrderRequests == 5

MaxBrowserRequests == 3

MaxLiveRequests == 2

MaxCheckoutRequests == 4

MaxBuyersRequests == 3
MaxTabsRequests == 3

\* ------------------------------------------------------- request inputs
Users == {"u1", "u2"}

ReqIds == {1, 2}

\* ids a request may name: two seeded products and the absent id 999
ReqProductIds == {1, 2, 999}

Quantities == {0, 1, 30, 60}

StockValues == {0, 5}

\* the inputs of the overlapping requests
ShopUsers == {"u1"}

ShopProductIds == {1, 2}

ShopQuantities == {0, 1, 60}

\* quantities a browser form may post
BrowserQuantities == {-1, 0, 2, 5}

\* product ids and quantities of the requests that are followed to their
\* response: a seeded product and the absent id
LiveProductIds == {1, 999}

LiveQuantities == {0, 60}

\* positive quantities of the buyers: 30 is more than half of any stock but one
BuyersQuantities == {1, 30}
\* quantities typed into the cart pages by the two tabs
TabsQuantities == {1, 2}

customerA == [name |-> "A", email |-> "a@x.com", address |-> "..."]

\* bodies sent to PUT /api/cart/:userId
ItemLists ==
  { << >>,
    << [productId |-> 1, quantity |-> 2] >>,
    << [productId |-> 2, quantity |-> 1], [productId |-> 1, quantity |-> 3] >>,
    << [productId |-> 1, quantity |-> 1], [productId |-> 1, quantity |-> 2] >>,
    << [productId |-> 999, quantity |-> 1] >> }

\* the inputs of the order desk
OrderItemLists ==
  { << [productId |-> 1, quantity |-> 2] >>,
    << [productId |-> 2, quantity |-> 1], [productId |-> 1, quantity |-> 3] >> }

\* ids asked of GET /api/orders/:id: persisted ones and one that is not
OrderIds == {1, 2, 3}

\* ------------------------------------------------------- product service
sampleProducts ==
  << [id |-> 1, name |-> "Smartphone X12 Pro", price |-> 69999,
      description |-> "Latest flagship smartphone with advanced features",
      image |-> "/images/smartphone.jpg", stock |-> 50],
     [id |-> 2, name |-> "UltraBook Pro 16", price |-> 129999,
      description |-> "High-performance laptop for professionals",
      image |-> "/images/laptop.jpg", stock |-> 30],
     [id |-> 3, name |-> "SoundWave Elite Headphones", price |-> 19999,
      description |-> "Premium wireless headphones with noise cancellation",
      image |-> "/images/headphones.jpg", stock |-> 100],
     [id |-> 4, name |-> "FitTech Pro Smartwatch", price |-> 24999,
      description |-> "Advanced fitness tracking smartwatch",
      image |-> "/images/smartwatch.jpg", stock |-> 45],
     [id |-> 5, name |-> "SlimTab Ultra", price |-> 49999,
      description |-> "Ultra-thin tablet for creativity and productivity",
      image |-> "/images/tablet.jpg", stock |-> 25] >>

NoProduct ==
  [id |-> 0, name |-> "", price |-> 0, description |-> "", image |-> "", stock |-> 0]

NoOrder ==
  [id |-> 0, userId |-> "", customer |-> customerA, items |-> << >>,
   total |-> 0, status |-> ""]

VARIABLES products, carts, orders, reqs, remaining, pre

vars == <<products, carts, orders, reqs, remaining, pre>>

\* a request slot before its first request
IdleReq ==
  [kind |-> "none", pc |-> "idle", userId |-> "", productId |-> 0,
   quantity |-> 0, stock |-> 0, items |-> << >>, hasItems |-> FALSE,
   product |-> NoProduct, result |-> NoProduct, cartItems |-> << >>,
   i |-> 0, orderItems |-> << >>, total |-> 0, orderId |-> 0, ret |-> "",
   status |-> 0, location |-> "", failed |-> FALSE, clears |-> 0, puts |-> 0,
   order |-> NoOrder, found |-> << >>, responses |-> 0]

\* the seeded table: initializeProducts has run on the empty table
SeededProducts ==
  [id \in {sampleProducts[k].id : k \in DOMAIN sampleProducts} |->
     sampleProducts[CHOOSE k \in DOMAIN sampleProducts : sampleProducts[k].id = id]]

Init ==
  /\ products = SeededProducts
  /\ carts = [u \in {} |-> << >>]
  /\ orders = << >>
  /\ reqs = [r \in ReqIds |-> IdleReq]
  /\ remaining = MaxRequests
  /\ pre = [on |-> TRUE, products |-> SeededProducts, carts |-> [u \in {} |-> << >>], orders |-> << >>]

\* ------------------------------------------------------------- helpers
\* a product read that answers 200 for a missing item
GetProductResp_found(id) ==
  [status |-> 200, data |-> IF id \in DOMAIN products THEN products[id] ELSE NoProduct]

\* GetCommand on the products table, then the handler's 404 / 200 answer
GetProductResp(id) ==
  IF id \in DOMAIN products
    THEN [status |-> 200, data |-> products[id]]
    ELSE [status |-> 404, data |-> NoProduct]

\* PutCommand: the item replaces whatever the key held
PutItem(table, key, item) ==
  [k \in DOMAIN table \cup {key} |-> IF k = key THEN item ELSE table[k]]

\* result.Item ? result.Item.items || [] : []
CartItemsOf(table, userId) ==
  IF userId \in DOMAIN table THEN table[userId].items ELSE << >>

\* the cart record a PutCommand stores
CartRecord(userId, items) == [userId |-> userId, items |-> items]

\* Array.prototype.findIndex on productId; 0 stands for JavaScript's -1
FindIndex(cartItems, productId) ==
  IF \E k \in 1..Len(cartItems) : cartItems[k].productId = productId
    THEN CHOOSE k \in 1..Len(cartItems) :
           /\ cartItems[k].productId = productId
           /\ \A j \in 1..(k - 1) : cartItems[j].productId # productId
    ELSE 0

\* the stock check left out
InsufficientStock_never(product, quantity) == FALSE

\* if (product.stock < quantity)
InsufficientStock(product, quantity) == product.stock < quantity

\* an add that overwrites the quantity of the existing line
MergeItem_overwrite(cartItems, productId, quantity) ==
  LET existingItemIndex == FindIndex(cartItems, productId) IN
  IF existingItemIndex >= 1
    THEN [cartItems EXCEPT ![existingItemIndex].quantity = quantity]
    ELSE Append(cartItems, [productId |-> productId, quantity |-> quantity])

\* an add that always appends a line
MergeItem_push(cartItems, productId, quantity) ==
  Append(cartItems, [productId |-> productId, quantity |-> quantity])

\* the merge-on-add of the cart service
MergeItem(cartItems, productId, quantity) ==
  LET existingItemIndex == FindIndex(cartItems, productId) IN
  IF existingItemIndex >= 1
    THEN [cartItems EXCEPT ![existingItemIndex].quantity = @ + quantity]
    ELSE Append(cartItems, [productId |-> productId, quantity |-> quantity])

\* the status the request boundary answers with when a downstream call throws
ErrorStatus(kind) ==
  IF kind \in {"edgeAdd", "edgeUpdate", "edgeRemove", "edgeClear"} THEN 302 ELSE 500

\* where the edge service redirects
EdgeLocation(kind, ok) ==
  IF kind = "edgeAdd" /\ ~ok THEN "/products?error=Failed to add item to cart"
  ELSE IF kind \in {"edgeAdd", "edgeUpdate", "edgeRemove", "edgeClear"} THEN "/cart"
  ELSE ""

\* what is left of a request once its handler has returned: the inputs, the
\* response (status, location, body) and the history fields; locals are gone
Finished(rec, st) ==
  LET ok == st \in {200, 302} /\ ~rec.failed IN
  [rec EXCEPT !.pc = "done", !.status = st,
              !.responses = IF st = 0 THEN @ ELSE @ + 1,
              !.result = NoProduct, !.i = 0, !.ret = "",
              !.stock = IF rec.kind = "setStock" THEN @ ELSE 0,
              !.product = IF rec.kind = "getProduct" /\ ok THEN @ ELSE NoProduct,
              !.cartItems = IF rec.kind \in {"getCart", "addItem"} /\ ok THEN @ ELSE << >>,
              !.orderItems = IF rec.kind = "createOrder" /\ ok THEN @ ELSE << >>,
              !.total = IF rec.kind = "createOrder" /\ ok THEN @ ELSE 0]

\* res.status(st) sent by the handler the request entered through
Respond(r, st, rec) ==
  reqs' = [reqs EXCEPT ![r] = Finished(rec, st)]

\* a catch block that logs the error and sends nothing
Catch_silent(r, rec) ==
  reqs' = [reqs EXCEPT ![r] = [rec EXCEPT !.pc = "caught"]]

\* the catch block at the request boundary
Catch(r, rec) ==
  reqs' = [reqs EXCEPT ![r] =
             Finished([rec EXCEPT !.location = EdgeLocation(rec.kind, FALSE)],
                      ErrorStatus(rec.kind))]

\* a request is accepted into the lowest free slot; pre keeps the tables as
\* they were when the latest request of the sequential client arrived
Accept(r, rec) ==
  /\ reqs[r].pc \in {"idle", "done"}
  /\ \A x \in ReqIds : x < r => reqs[x].pc \notin {"idle", "done"}
  /\ reqs' = [reqs EXCEPT ![r] = rec]
  /\ pre' = IF pre.on
              THEN [on |-> TRUE, products |-> products, carts |-> carts, orders |-> orders]
              ELSE pre

\* ------------------------------------------- GET /api/products/:id
StartGetProduct(r, id) ==
  /\ remaining > 0
  /\ remaining' = remaining - 1
  /\ Accept(r, [IdleReq EXCEPT !.kind = "getProduct", !.pc = "gp_get", !.productId = id])
  /\ UNCHANGED <<products, carts, orders>>

GetProduct(r) ==
  /\ reqs[r].pc = "gp_get"
  /\ LET resp == GetProductResp(reqs[r].productId) IN
       Respond(r, resp.status, [reqs[r] EXCEPT !.product = resp.data])
  /\ UNCHANGED <<products, carts, orders, remaining, pre>>

\* ------------------------------------------- PUT /api/products/:id/stock
StartSetStock(r, id, stock) ==
  /\ remaining > 0
  /\ remaining' = remaining - 1
  /\ Accept(r, [IdleReq EXCEPT !.kind = "setStock", !.pc = "ss_get",
                               !.productId = id, !.stock = stock])
  /\ UNCHANGED <<products, carts, orders>>

\* the caller's continuation once PUT .../stock has answered
StockReturn(r, st, rec) ==
  IF rec.kind = "setStock" THEN Respond(r, st, rec)
  ELSE IF st = 200 THEN reqs' = [reqs EXCEPT ![r] = [rec EXCEPT !.pc = rec.ret]]
  ELSE Catch(r, rec)

SetStockGet(r) ==
  /\ reqs[r].pc = "ss_get"
  /\ IF reqs[r].productId \in DOMAIN products
       THEN reqs' = [reqs EXCEPT ![r] = [@ EXCEPT !.pc = "ss_put",
                                                  !.result = products[reqs[r].productId]]]
       ELSE StockReturn(r, 404, reqs[r])
  /\ UNCHANGED <<products, carts, orders, remaining, pre>>

\* a stock write that stores only the key and the stock
UpdatedProduct_stockOnly(item, stock) == [NoProduct EXCEPT !.id = item.id, !.stock = stock]

\* a stock write that stores the record as it was read
UpdatedProduct_keep(item, stock) == item

\* updatedProduct = { ...result.Item, stock }
UpdatedProduct(item, stock) == [item EXCEPT !.stock = stock]

SetStockPut(r) ==
  /\ reqs[r].pc = "ss_put"
  /\ LET updatedProduct == UpdatedProduct(reqs[r].result, reqs[r].stock) IN
       products' = PutItem(products, updatedProduct.id, updatedProduct)
  /\ StockReturn(r, 200, reqs[r])
  /\ UNCHANGED <<carts, orders, remaining, pre>>

\* ------------------------------------------- GET /api/cart/:userId
StartGetCart(r, userId) ==
  /\ remaining > 0
  /\ remaining' = remaining - 1
  /\ Accept(r, [IdleReq EXCEPT !.kind = "getCart", !.pc = "gc_get", !.userId = userId])
  /\ UNCHANGED <<products, carts, orders>>

GetCart(r) ==
  /\ reqs[r].pc = "gc_get"
  /\ Respond(r, 200, [reqs[r] EXCEPT !.cartItems = CartItemsOf(carts, reqs[r].userId)])
  /\ UNCHANGED <<products, carts, orders, remaining, pre>>

\* ------------------------------------------- POST /api/cart/:userId/add
StartAddItem(r, userId, productId, quantity) ==
  /\ remaining > 0
  /\ remaining' = remaining - 1
  /\ Accept(r, [IdleReq EXCEPT !.kind = "addItem", !.pc = "ai_getProduct",
                               !.userId = userId, !.productId = productId,
                               !.quantity = quantity])
  /\ UNCHANGED <<products, carts, orders>>

\* a product fetch whose 404 answer does not throw
AddItemGetProduct_noThrow(r) ==
  /\ reqs[r].pc = "ai_getProduct"
  /\ LET resp == GetProductResp(reqs[r].productId)
         rec  == [reqs[r] EXCEPT !.product = resp.data] IN
       IF InsufficientStock(resp.data, reqs[r].quantity)
         THEN (IF rec.kind = "edgeAdd" THEN Catch(r, rec) ELSE Respond(r, 400, rec))
       ELSE reqs' = [reqs EXCEPT ![r] = [rec EXCEPT !.pc = "ai_getCart"]]
  /\ UNCHANGED <<products, carts, orders, remaining, pre>>

AddItemGetProduct(r) ==
  /\ reqs[r].pc = "ai_getProduct"
  /\ LET resp == GetProductResp(reqs[r].productId)
         rec  == [reqs[r] EXCEPT !.product = resp.data] IN
       IF resp.status # 200 THEN Catch(r, reqs[r])
       ELSE IF InsufficientStock(resp.data, reqs[r].quantity)
         THEN (IF rec.kind = "edgeAdd" THEN Catch(r, rec) ELSE Respond(r, 400, rec))
       ELSE reqs' = [reqs EXCEPT ![r] = [rec EXCEPT !.pc = "ai_getCart"]]
  /\ UNCHANGED <<products, carts, orders, remaining, pre>>

AddItemGetCart(r) ==
  /\ reqs[r].pc = "ai_getCart"
  /\ reqs' = [reqs EXCEPT ![r] =
       [@ EXCEPT !.pc = "ai_putCart",
                 !.cartItems = MergeItem(CartItemsOf(carts, reqs[r].userId),
                                         reqs[r].productId, reqs[r].quantity)]]
  /\ UNCHANGED <<products, carts, orders, remaining, pre>>

AddItemPutCart(r) ==
  /\ reqs[r].pc = "ai_putCart"
  /\ carts' = PutItem(carts, reqs[r].userId, CartRecord(reqs[r].userId, reqs[r].cartItems))
  /\ reqs' = [reqs EXCEPT ![r] =
       [@ EXCEPT !.pc = "ss_get", !.ret = "ai_respond", !.puts = @ + 1,
                 !.stock = reqs[r].product.stock - reqs[r].quantity]]
  /\ UNCHANGED <<products, orders, remaining, pre>>

AddItemRespond(r) ==
  /\ reqs[r].pc = "ai_respond"
  /\ IF reqs[r].kind = "edgeAdd"
       THEN Respond(r, 302, [reqs[r] EXCEPT !.location = EdgeLocation("edgeAdd", TRUE)])
       ELSE Respond(r, 200, reqs[r])
  /\ UNCHANGED <<products, carts, orders, remaining, pre>>

\* ------------------------------------------- PUT /api/cart/:userId
StartReplaceCart(r, userId, hasItems, items) ==
  /\ remaining > 0
  /\ remaining' = remaining - 1
  /\ Accept(r, [IdleReq EXCEPT !.kind = "replaceCart", !.pc = "rc_put", !.userId = userId,
                               !.hasItems = hasItems, !.items = items])
  /\ UNCHANGED <<products, carts, orders>>

\* items || []
ItemsOrEmpty(hasItems, items) == IF hasItems THEN items ELSE << >>

\* a replace that appends to the stored list
ReplaceCart_append(r) ==
  /\ reqs[r].pc = "rc_put"
  /\ carts' = PutItem(carts, reqs[r].userId,
                      CartRecord(reqs[r].userId,
                                 CartItemsOf(carts, reqs[r].userId)
                                   \o ItemsOrEmpty(reqs[r].hasItems, reqs[r].items)))
  /\ Respond(r, 200, [reqs[r] EXCEPT !.puts = @ + 1])
  /\ UNCHANGED <<products, orders, remaining, pre>>

ReplaceCart(r) ==
  /\ reqs[r].pc = "rc_put"
  /\ carts' = PutItem(carts, reqs[r].userId,
                      CartRecord(reqs[r].userId, ItemsOrEmpty(reqs[r].hasItems, reqs[r].items)))
  /\ Respond(r, 200, [reqs[r] EXCEPT !.puts = @ + 1])
  /\ UNCHANGED <<products, orders, remaining, pre>>

\* ------------------------------------------- DELETE /api/cart/:userId
StartClearCart(r, userId) ==
  /\ remaining > 0
  /\ remaining' = remaining - 1
  /\ Accept(r, [IdleReq EXCEPT !.kind = "clearCart", !.pc = "cc_put", !.userId = userId])
  /\ UNCHANGED <<products, carts, orders>>

\* a clear that removes only the first line
ClearCart_dropFirst(r) ==
  /\ reqs[r].pc = "cc_put"
  /\ LET items == CartItemsOf(carts, reqs[r].userId) IN
       carts' = PutItem(carts, reqs[r].userId,
                        CartRecord(reqs[r].userId,
                                   IF items = << >> THEN << >> ELSE Tail(items)))
  /\ Respond(r, 200, [reqs[r] EXCEPT !.clears = @ + 1])
  /\ UNCHANGED <<products, orders, remaining, pre>>

\* a clear that also gives the first line's quantity back to the catalog
ClearCart_restore(r) ==
  /\ reqs[r].pc = "cc_put"
  /\ LET items == CartItemsOf(carts, reqs[r].userId) IN
       products' =
         IF items # << >> /\ items[1].productId \in DOMAIN products
           THEN [products EXCEPT ![items[1].productId].stock = @ + items[1].quantity]
           ELSE products
  /\ carts' = PutItem(carts, reqs[r].userId, CartRecord(reqs[r].userId, << >>))
  /\ Respond(r, 200, [reqs[r] EXCEPT !.clears = @ + 1])
  /\ UNCHANGED <<orders, remaining, pre>>

ClearCart(r) ==
  /\ reqs[r].pc = "cc_put"
  /\ carts' = PutItem(carts, reqs[r].userId, CartRecord(reqs[r].userId, << >>))
  /\ Respond(r, 200, [reqs[r] EXCEPT !.clears = @ + 1])
  /\ UNCHANGED <<products, orders, remaining, pre>>

\* ------------------------------------------- POST /api/orders
StartCreateOrder(r, userId) ==
  /\ remaining > 0
  /\ remaining' = remaining - 1
  /\ Accept(r, [IdleReq EXCEPT !.kind = "createOrder", !.pc = "co_getCart", !.userId = userId])
  /\ UNCHANGED <<products, carts, orders>>

\* the empty-cart check left out
EmptyCart_never(cartItems) == FALSE

\* if (cartItems.length === 0)
EmptyCart(cartItems) == Len(cartItems) = 0

\* a checkout that empties the cart as soon as it has read it
CreateOrderGetCart_clearFirst(r) ==
  /\ reqs[r].pc = "co_getCart"
  /\ LET cartItems == CartItemsOf(carts, reqs[r].userId)
         rec == [reqs[r] EXCEPT !.cartItems = cartItems, !.i = 1, !.clears = @ + 1,
                                !.total = 0, !.orderItems = << >>] IN
       IF EmptyCart(cartItems) THEN Respond(r, 400, rec)
       ELSE reqs' = [reqs EXCEPT ![r] =
              [rec EXCEPT !.pc = IF Len(cartItems) = 0 THEN "co_putOrder" ELSE "co_getProduct"]]
  /\ carts' = PutItem(carts, reqs[r].userId, CartRecord(reqs[r].userId, << >>))
  /\ UNCHANGED <<products, orders, remaining, pre>>

CreateOrderGetCart(r) ==
  /\ reqs[r].pc = "co_getCart"
  /\ LET cartItems == CartItemsOf(carts, reqs[r].userId)
         rec == [reqs[r] EXCEPT !.cartItems = cartItems, !.i = 1,
                                !.total = 0, !.orderItems = << >>] IN
       IF EmptyCart(cartItems) THEN Respond(r, 400, rec)
       ELSE reqs' = [reqs EXCEPT ![r] =
              [rec EXCEPT !.pc = IF Len(cartItems) = 0 THEN "co_putOrder" ELSE "co_getProduct"]]
  /\ UNCHANGED <<products, carts, orders, remaining, pre>>

\* an order line that records one unit whatever the cart line holds
OrderItem_oneUnit(product, item) ==
  [product |-> [id |-> product.id, name |-> product.name, price |-> product.price],
   quantity |-> 1,
   itemTotal |-> product.price * item.quantity]

\* an order line that forgets the quantity in its total
OrderItem_unitPrice(product, item) ==
  [product |-> [id |-> product.id, name |-> product.name, price |-> product.price],
   quantity |-> item.quantity,
   itemTotal |-> product.price]

\* one line of the order: the product's name and price as fetched now
OrderItem(product, item) ==
  [product |-> [id |-> product.id, name |-> product.name, price |-> product.price],
   quantity |-> item.quantity,
   itemTotal |-> product.price * item.quantity]

\* one iteration of the for loop over cartItems
CreateOrderGetProduct(r) ==
  /\ reqs[r].pc = "co_getProduct"
  /\ LET item == reqs[r].cartItems[reqs[r].i]
         resp == GetProductResp(item.productId)
         line == OrderItem(resp.data, item) IN
       IF resp.status # 200 THEN Catch(r, reqs[r])
       ELSE reqs' = [reqs EXCEPT ![r] =
              [@ EXCEPT !.total = @ + line.itemTotal,
                        !.orderItems = Append(@, line),
                        !.i = @ + 1,
                        !.pc = IF reqs[r].i = Len(reqs[r].cartItems)
                                 THEN "co_putOrder" ELSE "co_getProduct"]]
  /\ UNCHANGED <<products, carts, orders, remaining, pre>>

\* the order record
NewOrder(orderId, userId, orderItems, total) ==
  [id |-> orderId, userId |-> userId, customer |-> customerA,
   items |-> orderItems, total |-> total, status |-> "Confirmed"]

\* an id that an earlier order already has
uuidv4_reuse(table) == IF Len(table) = 0 THEN 1 ELSE Len(table)

\* uuid.v4(): an id no persisted order has, here the next free index
uuidv4(table) == Len(table) + 1

\* PutCommand on the orders table: the item replaces the record of its key
PutOrder(table, item) ==
  IF item.id \in DOMAIN table THEN [table EXCEPT ![item.id] = item]
  ELSE Append(table, item)

CreateOrderPutOrder(r) ==
  /\ reqs[r].pc = "co_putOrder"
  /\ LET orderId == uuidv4(orders) IN
       /\ orders' = PutOrder(orders, NewOrder(orderId, reqs[r].userId,
                                              reqs[r].orderItems, reqs[r].total))
       /\ reqs' = [reqs EXCEPT ![r] = [@ EXCEPT !.pc = "co_clearCart", !.orderId = orderId]]
  /\ UNCHANGED <<products, carts, remaining, pre>>

\* orderValue.inc(total): a Counter throws when asked to add a negative value
IncThrows(value) == value < 0

\* the cart-clear, then the counters and res.json(order)
CreateOrderClearCart(r) ==
  /\ reqs[r].pc = "co_clearCart"
  /\ carts' = PutItem(carts, reqs[r].userId, CartRecord(reqs[r].userId, << >>))
  /\ IF IncThrows(reqs[r].total)
       THEN Catch(r, [reqs[r] EXCEPT !.clears = @ + 1])
       ELSE Respond(r, 200, [reqs[r] EXCEPT !.clears = @ + 1])
  /\ UNCHANGED <<products, orders, remaining, pre>>

\* ------------------------------------------- GET /api/orders/:id
StartGetOrder(r, id) ==
  /\ remaining > 0
  /\ remaining' = remaining - 1
  /\ Accept(r, [IdleReq EXCEPT !.kind = "getOrder", !.pc = "go_get", !.orderId = id])
  /\ UNCHANGED <<products, carts, orders>>

\* GetCommand by id, then 404 if (!result.Item)
GetOrder(r) ==
  /\ reqs[r].pc = "go_get"
  /\ IF reqs[r].orderId \in DOMAIN orders
       THEN Respond(r, 200, [reqs[r] EXCEPT !.order = orders[reqs[r].orderId]])
       ELSE Respond(r, 404, reqs[r])
  /\ UNCHANGED <<products, carts, orders, remaining, pre>>

\* ------------------------------------------- GET /api/orders/user/:userId
StartListOrders(r, userId) ==
  /\ remaining > 0
  /\ remaining' = remaining - 1
  /\ Accept(r, [IdleReq EXCEPT !.kind = "listOrdersForUser", !.pc = "lo_scan",
                               !.userId = userId])
  /\ UNCHANGED <<products, carts, orders>>

\* a scan without its filter
ScanOrders_all(table, userId) == table

\* ScanCommand with FilterExpression userId = :userId
ScanOrders(table, userId) ==
  LET OfUser(order) == order.userId = userId IN SelectSeq(table, OfUser)

ListOrders(r) ==
  /\ reqs[r].pc = "lo_scan"
  /\ Respond(r, 200, [reqs[r] EXCEPT !.found = ScanOrders(orders, reqs[r].userId)])
  /\ UNCHANGED <<products, carts, orders, remaining, pre>>

\* ------------------------------------------- edge: POST /cart/add
\* parseInt(req.body.quantity) || 1
EdgeQuantity(quantity) == IF quantity = 0 THEN 1 ELSE quantity

StartEdgeAdd(r, userId, productId, quantity) ==
  /\ remaining > 0
  /\ remaining' = remaining - 1
  /\ Accept(r, [IdleReq EXCEPT !.kind = "edgeAdd", !.pc = "ai_getProduct",
                               !.userId = userId, !.productId = productId,
                               !.quantity = EdgeQuantity(quantity)])
  /\ UNCHANGED <<products, carts, orders>>

\* ------------------------------------------- edge: POST /cart/update/:id
\* Array.prototype.find on productId; only used when FindIndex is not 0
FindItem(cartItems, productId) == cartItems[FindIndex(cartItems, productId)]

\* a filter that lets no line through
WithoutProduct_all(cartItems, productId) == << >>

\* cartItems.filter(item => item.productId !== productId)
WithoutProduct(cartItems, productId) ==
  SelectSeq(cartItems, LAMBDA item : item.productId # productId)

\* cartItems.map(item => item.productId === productId ? {...item, quantity} : item)
WithQuantity(cartItems, productId, newQuantity) ==
  [k \in 1..Len(cartItems) |->
     IF cartItems[k].productId = productId
       THEN [cartItems[k] EXCEPT !.quantity = newQuantity]
       ELSE cartItems[k]]

StartEdgeUpdate(r, userId, productId, newQuantity) ==
  /\ remaining > 0
  /\ remaining' = remaining - 1
  /\ Accept(r, [IdleReq EXCEPT !.kind = "edgeUpdate", !.pc = "eu_getCart",
                               !.userId = userId, !.productId = productId,
                               !.quantity = newQuantity])
  /\ UNCHANGED <<products, carts, orders>>

EdgeUpdateGetCart(r) ==
  /\ reqs[r].pc = "eu_getCart"
  /\ LET cartItems == CartItemsOf(carts, reqs[r].userId)
         rec == [reqs[r] EXCEPT !.cartItems = cartItems] IN
       IF FindIndex(cartItems, reqs[r].productId) = 0
         THEN Respond(r, 302, [rec EXCEPT !.location = "/cart"])
         ELSE reqs' = [reqs EXCEPT ![r] = [rec EXCEPT !.pc = "eu_getProduct"]]
  /\ UNCHANGED <<products, carts, orders, remaining, pre>>

\* an update that gives nothing back when the line is removed
UpdateStock_noRestore(product, currentItem, newQuantity) ==
  LET quantityDiff == currentItem.quantity - newQuantity IN
  IF newQuantity <= 0
    THEN product.stock
    ELSE product.stock + quantityDiff

\* the stock the update flow writes back
UpdateStock(product, currentItem, newQuantity) ==
  LET quantityDiff == currentItem.quantity - newQuantity IN
  IF newQuantity <= 0
    THEN product.stock + currentItem.quantity
    ELSE product.stock + quantityDiff

EdgeUpdateGetProduct(r) ==
  /\ reqs[r].pc = "eu_getProduct"
  /\ LET resp == GetProductResp(reqs[r].productId)
         currentItem == FindItem(reqs[r].cartItems, reqs[r].productId) IN
       IF resp.status # 200 THEN Catch(r, reqs[r])
       ELSE reqs' = [reqs EXCEPT ![r] =
              [@ EXCEPT !.product = resp.data, !.pc = "ss_get", !.ret = "eu_putCart",
                        !.stock = UpdateStock(resp.data, currentItem, reqs[r].quantity)]]
  /\ UNCHANGED <<products, carts, orders, remaining, pre>>

EdgeUpdatePutCart(r) ==
  /\ reqs[r].pc = "eu_putCart"
  /\ LET updatedItems ==
           IF reqs[r].quantity <= 0
             THEN WithoutProduct(reqs[r].cartItems, reqs[r].productId)
             ELSE WithQuantity(reqs[r].cartItems, reqs[r].productId, reqs[r].quantity) IN
       carts' = PutItem(carts, reqs[r].userId,
                        CartRecord(reqs[r].userId, ItemsOrEmpty(TRUE, updatedItems)))
  /\ Respond(r, 302, [reqs[r] EXCEPT !.location = "/cart", !.puts = @ + 1])
  /\ UNCHANGED <<products, orders, remaining, pre>>

\* ------------------------------------------- edge: GET /cart/remove/:id
StartEdgeRemove(r, userId, productId) ==
  /\ remaining > 0
  /\ remaining' = remaining - 1
  /\ Accept(r, [IdleReq EXCEPT !.kind = "edgeRemove", !.pc = "er_getCart",
                               !.userId = userId, !.productId = productId])
  /\ UNCHANGED <<products, carts, orders>>

EdgeRemoveGetCart(r) ==
  /\ reqs[r].pc = "er_getCart"
  /\ LET cartItems == CartItemsOf(carts, reqs[r].userId)
         rec == [reqs[r] EXCEPT !.cartItems = cartItems] IN
       IF FindIndex(cartItems, reqs[r].productId) = 0
         THEN Respond(r, 302, [rec EXCEPT !.location = "/cart"])
         ELSE reqs' = [reqs EXCEPT ![r] = [rec EXCEPT !.pc = "er_getProduct"]]
  /\ UNCHANGED <<products, carts, orders, remaining, pre>>

EdgeRemoveGetProduct(r) ==
  /\ reqs[r].pc = "er_getProduct"
  /\ LET resp == GetProductResp(reqs[r].productId)
         itemToRemove == FindItem(reqs[r].cartItems, reqs[r].productId) IN
       IF resp.status # 200 THEN Catch(r, reqs[r])
       ELSE reqs' = [reqs EXCEPT ![r] =
              [@ EXCEPT !.product = resp.data, !.pc = "ss_get", !.ret = "er_putCart",
                        !.stock = resp.data.stock + itemToRemove.quantity]]
  /\ UNCHANGED <<products, carts, orders, remaining, pre>>

EdgeRemovePutCart(r) ==
  /\ reqs[r].pc = "er_putCart"
  /\ LET updatedItems == WithoutProduct(reqs[r].cartItems, reqs[r].productId) IN
       carts' = PutItem(carts, reqs[r].userId,
                        CartRecord(reqs[r].userId, ItemsOrEmpty(TRUE, updatedItems)))
  /\ Respond(r, 302, [reqs[r] EXCEPT !.location = "/cart", !.puts = @ + 1])
  /\ UNCHANGED <<products, orders, remaining, pre>>

\* ------------------------------------------- edge: GET /cart/clear
StartEdgeClear(r, userId) ==
  /\ remaining > 0
  /\ remaining' = remaining - 1
  /\ Accept(r, [IdleReq EXCEPT !.kind = "edgeClear", !.pc = "ec_getCart", !.userId = userId])
  /\ UNCHANGED <<products, carts, orders>>

\* a clear that empties the cart before it restores the stock
EdgeClearGetCart_clearFirst(r) ==
  /\ reqs[r].pc = "ec_getCart"
  /\ LET cartItems == CartItemsOf(carts, reqs[r].userId) IN
       reqs' = [reqs EXCEPT ![r] =
         [@ EXCEPT !.cartItems = cartItems, !.i = 1,
                   !.pc = IF Len(cartItems) = 0 THEN "ec_clearCart" ELSE "ec_getProduct"]]
  /\ carts' = PutItem(carts, reqs[r].userId, CartRecord(reqs[r].userId, << >>))
  /\ UNCHANGED <<products, orders, remaining, pre>>

EdgeClearGetCart(r) ==
  /\ reqs[r].pc = "ec_getCart"
  /\ LET cartItems == CartItemsOf(carts, reqs[r].userId) IN
       reqs' = [reqs EXCEPT ![r] =
         [@ EXCEPT !.cartItems = cartItems, !.i = 1,
                   !.pc = IF Len(cartItems) = 0 THEN "ec_clearCart" ELSE "ec_getProduct"]]
  /\ UNCHANGED <<products, carts, orders, remaining, pre>>

\* one iteration of the restore loop: read the product, then PUT its stock
EdgeClearGetProduct(r) ==
  /\ reqs[r].pc = "ec_getProduct"
  /\ LET item == reqs[r].cartItems[reqs[r].i]
         resp == GetProductResp(item.productId) IN
       IF resp.status # 200 THEN Catch(r, reqs[r])
       ELSE reqs' = [reqs EXCEPT ![r] =
              [@ EXCEPT !.product = resp.data, !.productId = item.productId,
                        !.pc = "ss_get",
                        !.stock = resp.data.stock + item.quantity,
                        !.i = @ + 1,
                        !.ret = IF reqs[r].i = Len(reqs[r].cartItems)
                                  THEN "ec_clearCart" ELSE "ec_getProduct"]]
  /\ UNCHANGED <<products, carts, orders, remaining, pre>>

EdgeClearCart(r) ==
  /\ reqs[r].pc = "ec_clearCart"
  /\ carts' = PutItem(carts, reqs[r].userId, CartRecord(reqs[r].userId, << >>))
  /\ Respond(r, 302, [reqs[r] EXCEPT !.location = "/cart", !.clears = @ + 1])
  /\ UNCHANGED <<products, orders, remaining, pre>>

\* ------------------------------------------- a downstream call throws
\* a failed call that is issued again instead of ending the request
Fail_retry(r) ==
  /\ reqs[r].pc \notin {"idle", "done", "ai_respond"}
  /\ reqs' = [reqs EXCEPT ![r] = [@ EXCEPT !.failed = TRUE]]
  /\ UNCHANGED <<products, carts, orders, remaining, pre>>

\* a catch that takes the added quantity out of the cart again when the
\* stock could not be written
Fail_compensate(r) ==
  /\ reqs[r].pc \notin {"idle", "done", "ai_respond"}
  /\ Catch(r, [reqs[r] EXCEPT !.failed = TRUE])
  /\ carts' = IF reqs[r].kind = "addItem" /\ reqs[r].pc \in {"ss_get", "ss_put"}
               THEN PutItem(carts, reqs[r].userId,
                            CartRecord(reqs[r].userId,
                                       MergeItem(reqs[r].cartItems, reqs[r].productId,
                                                 0 - reqs[r].quantity)))
               ELSE carts
  /\ UNCHANGED <<products, orders, remaining, pre>>

\* a catch that deletes the order when the cart could not be cleared
Fail_rollbackOrder(r) ==
  /\ reqs[r].pc \notin {"idle", "done", "ai_respond"}
  /\ Catch(r, [reqs[r] EXCEPT !.failed = TRUE])
  /\ orders' = IF reqs[r].pc = "co_clearCart" THEN SubSeq(orders, 1, Len(orders) - 1)
                ELSE orders
  /\ UNCHANGED <<products, carts, remaining, pre>>

Fail(r) ==
  /\ reqs[r].pc \notin {"idle", "done", "ai_respond"}
  /\ Catch(r, [reqs[r] EXCEPT !.failed = TRUE])
  /\ UNCHANGED <<products, carts, orders, remaining, pre>>

\* ------------------------------------------- one client, one request at a time
Next ==
  \/ \E id \in ReqProductIds : StartGetProduct(1, id)
  \/ GetProduct(1)
  \/ \E id \in ReqProductIds, s \in StockValues : StartSetStock(1, id, s)
  \/ SetStockGet(1)
  \/ SetStockPut(1)
  \/ \E u \in Users : StartGetCart(1, u)
  \/ GetCart(1)
  \/ \E u \in Users, p \in ReqProductIds, q \in Quantities : StartAddItem(1, u, p, q)
  \/ AddItemGetProduct(1)
  \/ AddItemGetCart(1)
  \/ AddItemPutCart(1)
  \/ AddItemRespond(1)
  \/ \E u \in Users : StartReplaceCart(1, u, FALSE, << >>)
  \/ \E u \in Users, items \in ItemLists : StartReplaceCart(1, u, TRUE, items)
  \/ ReplaceCart(1)
  \/ \E u \in Users : StartClearCart(1, u)
  \/ ClearCart(1)
  \/ \E u \in Users : StartCreateOrder(1, u)
  \/ CreateOrderGetCart(1)
  \/ CreateOrderGetProduct(1)
  \/ CreateOrderPutOrder(1)
  \/ CreateOrderClearCart(1)
  \/ Fail(1)

Spec == Init /\ [][Next]_vars

\* ------------------------------------------- the shop: browsers and API clients
\* of the cart, overlapping (addItem and the edge service's cart flows)
ShopInit ==
  /\ products = SeededProducts
  /\ carts = [u \in {} |-> << >>]
  /\ orders = << >>
  /\ reqs = [r \in ReqIds |-> IdleReq]
  /\ remaining = MaxShopRequests
  /\ pre = [on |-> FALSE, products |-> [id \in {} |-> NoProduct], carts |-> [u \in {} |-> << >>], orders |-> << >>]

ShopNext ==
  \E r \in ReqIds :
    \/ \E u \in ShopUsers, p \in ShopProductIds, q \in ShopQuantities : StartAddItem(r, u, p, q)
    \/ \E u \in ShopUsers, p \in ShopProductIds, q \in ShopQuantities : StartEdgeAdd(r, u, p, q)
    \/ AddItemGetProduct(r)
    \/ AddItemGetCart(r)
    \/ AddItemPutCart(r)
    \/ AddItemRespond(r)
    \/ SetStockGet(r)
    \/ SetStockPut(r)
    \/ \E u \in ShopUsers, p \in ShopProductIds, q \in ShopQuantities : StartEdgeUpdate(r, u, p, q)
    \/ EdgeUpdateGetCart(r)
    \/ EdgeUpdateGetProduct(r)
    \/ EdgeUpdatePutCart(r)
    \/ \E u \in ShopUsers, p \in ShopProductIds : StartEdgeRemove(r, u, p)
    \/ EdgeRemoveGetCart(r)
    \/ EdgeRemoveGetProduct(r)
    \/ EdgeRemovePutCart(r)
    \/ \E u \in ShopUsers : StartEdgeClear(r, u)
    \/ EdgeClearGetCart(r)
    \/ EdgeClearGetProduct(r)
    \/ EdgeClearCart(r)
    \/ Fail(r)

ShopSpec == ShopInit /\ [][ShopNext]_vars

\* ------------------------------------------- the order desk: one client
\* filling carts, placing orders and reading them back
OrderInit ==
  /\ products = SeededProducts
  /\ carts = [u \in {} |-> << >>]
  /\ orders = << >>
  /\ reqs = [r \in ReqIds |-> IdleReq]
  /\ remaining = MaxOrderRequests
  /\ pre = [on |-> TRUE, products |-> SeededProducts, carts |-> [u \in {} |-> << >>], orders |-> << >>]

OrderNext ==
  \/ \E u \in Users, items \in OrderItemLists : StartReplaceCart(1, u, TRUE, items)
  \/ ReplaceCart(1)
  \/ \E u \in Users : StartCreateOrder(1, u)
  \/ CreateOrderGetCart(1)
  \/ CreateOrderGetProduct(1)
  \/ CreateOrderPutOrder(1)
  \/ CreateOrderClearCart(1)
  \/ \E id \in OrderIds : StartGetOrder(1, id)
  \/ GetOrder(1)
  \/ \E u \in Users : StartListOrders(1, u)
  \/ ListOrders(1)
  \/ Fail(1)

OrderSpec == OrderInit /\ [][OrderNext]_vars

\* ------------------------------------------- the browser: one session of
\* the edge service, one request at a time
BrowserInit ==
  /\ products = SeededProducts
  /\ carts = [u \in {} |-> << >>]
  /\ orders = << >>
  /\ reqs = [r \in ReqIds |-> IdleReq]
  /\ remaining = MaxBrowserRequests
  /\ pre = [on |-> TRUE, products |-> SeededProducts, carts |-> [u \in {} |-> << >>], orders |-> << >>]

BrowserNext ==
  \/ \E u \in ShopUsers, p \in ShopProductIds, q \in BrowserQuantities : StartEdgeAdd(1, u, p, q)
  \/ AddItemGetProduct(1)
  \/ AddItemGetCart(1)
  \/ AddItemPutCart(1)
  \/ AddItemRespond(1)
  \/ SetStockGet(1)
  \/ SetStockPut(1)
  \/ \E u \in ShopUsers, p \in ShopProductIds, q \in BrowserQuantities : StartEdgeUpdate(1, u, p, q)
  \/ EdgeUpdateGetCart(1)
  \/ EdgeUpdateGetProduct(1)
  \/ EdgeUpdatePutCart(1)
  \/ \E u \in ShopUsers, p \in ShopProductIds : StartEdgeRemove(1, u, p)
  \/ EdgeRemoveGetCart(1)
  \/ EdgeRemoveGetProduct(1)
  \/ EdgeRemovePutCart(1)
  \/ \E u \in ShopUsers : StartEdgeClear(1, u)
  \/ EdgeClearGetCart(1)
  \/ EdgeClearGetProduct(1)
  \/ EdgeClearCart(1)
  \/ Fail(1)

BrowserSpec == BrowserInit /\ [][BrowserNext]_vars

\* ------------------------------------------- the shopper: one session that
\* fills its cart through the edge service and checks out, one request at a
\* time, every downstream call succeeding
CheckoutInit ==
  /\ products = SeededProducts
  /\ carts = [u \in {} |-> << >>]
  /\ orders = << >>
  /\ reqs = [r \in ReqIds |-> IdleReq]
  /\ remaining = MaxCheckoutRequests
  /\ pre = [on |-> TRUE, products |-> SeededProducts, carts |-> [u \in {} |-> << >>], orders |-> << >>]

CheckoutNext ==
  \/ \E u \in ShopUsers, p \in ShopProductIds, q \in BrowserQuantities : StartEdgeAdd(1, u, p, q)
  \/ AddItemGetProduct(1)
  \/ AddItemGetCart(1)
  \/ AddItemPutCart(1)
  \/ AddItemRespond(1)
  \/ SetStockGet(1)
  \/ SetStockPut(1)
  \/ \E u \in ShopUsers, p \in ShopProductIds, q \in BrowserQuantities : StartEdgeUpdate(1, u, p, q)
  \/ EdgeUpdateGetCart(1)
  \/ EdgeUpdateGetProduct(1)
  \/ EdgeUpdatePutCart(1)
  \/ \E u \in ShopUsers, p \in ShopProductIds : StartEdgeRemove(1, u, p)
  \/ EdgeRemoveGetCart(1)
  \/ EdgeRemoveGetProduct(1)
  \/ EdgeRemovePutCart(1)
  \/ \E u \in ShopUsers : StartEdgeClear(1, u)
  \/ EdgeClearGetCart(1)
  \/ EdgeClearGetProduct(1)
  \/ EdgeClearCart(1)
  \/ \E u \in ShopUsers : StartCreateOrder(1, u)
  \/ CreateOrderGetCart(1)
  \/ CreateOrderGetProduct(1)
  \/ CreateOrderPutOrder(1)
  \/ CreateOrderClearCart(1)

CheckoutSpec == CheckoutInit /\ [][CheckoutNext]_vars

\* ------------------------------------------- the buyers: API clients of
\* two users adding to their carts and checking out, overlapping, every
\* downstream call succeeding
BuyersInit ==
  /\ products = SeededProducts
  /\ carts = [u \in {} |-> << >>]
  /\ orders = << >>
  /\ reqs = [r \in ReqIds |-> IdleReq]
  /\ remaining = MaxBuyersRequests
  /\ pre = [on |-> FALSE, products |-> [id \in {} |-> NoProduct], carts |-> [u \in {} |-> << >>], orders |-> << >>]

BuyersNext ==
  \E r \in ReqIds :
    \/ \E u \in Users, p \in ShopProductIds, q \in BuyersQuantities : StartAddItem(r, u, p, q)
    \/ AddItemGetProduct(r)
    \/ AddItemGetCart(r)
    \/ AddItemPutCart(r)
    \/ AddItemRespond(r)
    \/ SetStockGet(r)
    \/ SetStockPut(r)
    \/ \E u \in Users : StartCreateOrder(r, u)
    \/ CreateOrderGetCart(r)
    \/ CreateOrderGetProduct(r)
    \/ CreateOrderPutOrder(r)
    \/ CreateOrderClearCart(r)

BuyersSpec == BuyersInit /\ [][BuyersNext]_vars

\* ------------------------------------------- the tabs: two browser tabs on
\* the edge service's cart pages, overlapping, every quantity positive and
\* every downstream call succeeding
TabsInit ==
  /\ products = SeededProducts
  /\ carts = [u \in {} |-> << >>]
  /\ orders = << >>
  /\ reqs = [r \in ReqIds |-> IdleReq]
  /\ remaining = MaxTabsRequests
  /\ pre = [on |-> FALSE, products |-> [id \in {} |-> NoProduct], carts |-> [u \in {} |-> << >>], orders |-> << >>]

TabsNext ==
  \E r \in ReqIds :
    \/ \E u \in ShopUsers, p \in ShopProductIds, q \in TabsQuantities : StartEdgeAdd(r, u, p, q)
    \/ AddItemGetProduct(r)
    \/ AddItemGetCart(r)
    \/ AddItemPutCart(r)
    \/ AddItemRespond(r)
    \/ SetStockGet(r)
    \/ SetStockPut(r)
    \/ \E u \in ShopUsers, p \in ShopProductIds, q \in TabsQuantities : StartEdgeUpdate(r, u, p, q)
    \/ EdgeUpdateGetCart(r)
    \/ EdgeUpdateGetProduct(r)
    \/ EdgeUpdatePutCart(r)
    \/ \E u \in ShopUsers, p \in ShopProductIds : StartEdgeRemove(r, u, p)
    \/ EdgeRemoveGetCart(r)
    \/ EdgeRemoveGetProduct(r)
    \/ EdgeRemovePutCart(r)
    \/ \E u \in ShopUsers : StartEdgeClear(r, u)
    \/ EdgeClearGetCart(r)
    \/ EdgeClearGetProduct(r)
    \/ EdgeClearCart(r)

TabsSpec == TabsInit /\ [][TabsNext]_vars

\* ------------------------------------------- every endpoint, overlapping,
\* each outstanding downstream call returning or failing in the end
\* the next step of the request in slot r: its outstanding call returns
Step(r) ==
  \/ GetProduct(r)
  \/ SetStockGet(r)
  \/ SetStockPut(r)
  \/ GetCart(r)
  \/ AddItemGetProduct(r)
  \/ AddItemGetCart(r)
  \/ AddItemPutCart(r)
  \/ AddItemRespond(r)
  \/ ReplaceCart(r)
  \/ ClearCart(r)
  \/ CreateOrderGetCart(r)
  \/ CreateOrderGetProduct(r)
  \/ CreateOrderPutOrder(r)
  \/ CreateOrderClearCart(r)
  \/ GetOrder(r)
  \/ ListOrders(r)
  \/ EdgeUpdateGetCart(r)
  \/ EdgeUpdateGetProduct(r)
  \/ EdgeUpdatePutCart(r)
  \/ EdgeRemoveGetCart(r)
  \/ EdgeRemoveGetProduct(r)
  \/ EdgeRemovePutCart(r)
  \/ EdgeClearGetCart(r)
  \/ EdgeClearGetProduct(r)
  \/ EdgeClearCart(r)

LiveInit ==
  /\ products = SeededProducts
  /\ carts = [u \in {} |-> << >>]
  /\ orders = << >>
  /\ reqs = [r \in ReqIds |-> IdleReq]
  /\ remaining = MaxLiveRequests
  /\ pre = [on |-> FALSE, products |-> [id \in {} |-> NoProduct], carts |-> [u \in {} |-> << >>], orders |-> << >>]

LiveNext ==
  \E r \in ReqIds :
    \/ \E id \in LiveProductIds : StartGetProduct(r, id)
    \/ \E id \in LiveProductIds, s \in StockValues : StartSetStock(r, id, s)
    \/ \E u \in ShopUsers : StartGetCart(r, u)
    \/ \E u \in ShopUsers, p \in LiveProductIds, q \in LiveQuantities : StartAddItem(r, u, p, q)
    \/ \E u \in ShopUsers : StartReplaceCart(r, u, FALSE, << >>)
    \/ \E u \in ShopUsers, items \in OrderItemLists : StartReplaceCart(r, u, TRUE, items)
    \/ \E u \in ShopUsers : StartClearCart(r, u)
    \/ \E u \in ShopUsers : StartCreateOrder(r, u)
    \/ \E id \in OrderIds : StartGetOrder(r, id)
    \/ \E u \in ShopUsers : StartListOrders(r, u)
    \/ \E u \in ShopUsers, p \in LiveProductIds, q \in LiveQuantities : StartEdgeAdd(r, u, p, q)
    \/ \E u \in ShopUsers, p \in LiveProductIds, q \in LiveQuantities : StartEdgeUpdate(r, u, p, q)
    \/ \E u \in ShopUsers, p \in LiveProductIds : StartEdgeRemove(r, u, p)
    \/ \E u \in ShopUsers : StartEdgeClear(r, u)
    \/ Step(r)
    \/ Fail(r)

\* no call is outstanding for ever: it returns (Step) or throws (Fail)
LiveSpec ==
  /\ LiveInit
  /\ [][LiveNext]_vars
  /\ \A r \in ReqIds : WF_vars(Step(r) \/ Fail(r))

\* ------------------------------------------- the catalog: product service
\* replicas booting on an empty table while stock writes arrive
StartInitializeProducts(r) ==
  /\ remaining > 0
  /\ remaining' = remaining - 1
  /\ Accept(r, [IdleReq EXCEPT !.kind = "initializeProducts", !.pc = "ip_scan"])
  /\ UNCHANGED <<products, carts, orders>>

\* ScanCommand, then if (existingProducts.length === 0)
InitializeProductsScan(r) ==
  /\ reqs[r].pc = "ip_scan"
  /\ LET existingProducts == DOMAIN products IN
       reqs' = [reqs EXCEPT ![r] =
                  IF Cardinality(existingProducts) = 0
                    THEN [@ EXCEPT !.pc = "ip_put", !.i = 1]
                    ELSE Finished(@, 0)]
  /\ UNCHANGED <<products, carts, orders, remaining, pre>>

\* for (const product of sampleProducts) await PutCommand
InitializeProductsPut(r) ==
  /\ reqs[r].pc = "ip_put"
  /\ LET product == sampleProducts[reqs[r].i] IN
       products' = PutItem(products, product.id, product)
  /\ reqs' = [reqs EXCEPT ![r] =
                IF reqs[r].i = Len(sampleProducts)
                  THEN Finished([@ EXCEPT !.puts = @ + 1], 0)
                  ELSE [@ EXCEPT !.i = @ + 1, !.puts = @ + 1]]
  /\ UNCHANGED <<carts, orders, remaining, pre>>

CatalogInit ==
  /\ products = [id \in {} |-> NoProduct]
  /\ carts = [u \in {} |-> << >>]
  /\ orders = << >>
  /\ reqs = [r \in ReqIds |-> IdleReq]
  /\ remaining = MaxCatalogRequests
  /\ pre = [on |-> FALSE, products |-> [id \in {} |-> NoProduct], carts |-> [u \in {} |-> << >>], orders |-> << >>]

CatalogNext ==
  \E r \in ReqIds :
    \/ StartInitializeProducts(r)
    \/ InitializeProductsScan(r)
    \/ InitializeProductsPut(r)
    \/ \E id \in ReqProductIds, s \in StockValues : StartSetStock(r, id, s)
    \/ SetStockGet(r)
    \/ SetStockPut(r)

CatalogSpec == CatalogInit /\ [][CatalogNext]_vars

\* =================================================================== claims
\* the request of the sequential client
cur == reqs[1]

\* the positions of the lines for productId
LinesFor(items, productId) == {k \in 1..Len(items) : items[k].productId = productId}

RECURSIVE QuantityOf(_, _)
\* the units of productId a list holds (0 if absent)
QuantityOf(items, productId) ==
  IF items = << >> THEN 0
  ELSE (IF Head(items).productId = productId THEN Head(items).quantity ELSE 0)
       + QuantityOf(Tail(items), productId)

RECURSIVE SumItemTotals(_)
SumItemTotals(orderItems) ==
  IF orderItems = << >> THEN 0
  ELSE Head(orderItems).itemTotal + SumItemTotals(Tail(orderItems))

\* an addItem(u, p, q) with p in the catalog and q <= stock(p) has answered,
\* no downstream call of it having failed
AddItemAnswered ==
  /\ cur.pc = "done" /\ cur.kind = "addItem" /\ ~cur.failed
  /\ cur.productId \in DOMAIN pre.products
  /\ cur.quantity <= pre.products[cur.productId].stock

\* it succeeded, the cart holds one line for p with the prior quantity plus q,
\* and the stock of p went down by q
AddItemMerged ==
  /\ cur.status = 200
  /\ Cardinality(LinesFor(CartItemsOf(carts, cur.userId), cur.productId)) = 1
  /\ QuantityOf(CartItemsOf(carts, cur.userId), cur.productId)
       = QuantityOf(CartItemsOf(pre.carts, cur.userId), cur.productId) + cur.quantity
  /\ products[cur.productId].stock = pre.products[cur.productId].stock - cur.quantity

\* C1 as stated: with no overlapping request, addItem(u, p, q) with q <= stock(p)
\* succeeds, leaves exactly one line for p holding the prior quantity plus q, and
\* lowers stock(p) by q
C1_AsStated == AddItemAnswered => AddItemMerged

\* C1 amended: the same, for a prior cart that holds at most one line for p
C1_AddItemMerges ==
  (/\ AddItemAnswered
   /\ Cardinality(LinesFor(CartItemsOf(pre.carts, cur.userId), cur.productId)) <= 1)
  => AddItemMerged

\* a second add for the same user and product has answered
C1_Witness ==
  /\ AddItemAnswered /\ cur.status = 200 /\ cur.quantity > 0
  /\ Cardinality(LinesFor(CartItemsOf(pre.carts, cur.userId), cur.productId)) = 1
  /\ QuantityOf(CartItemsOf(pre.carts, cur.userId), cur.productId) > 0

\* C2: addItem(u, p, q) with q > stock(p) is answered 400 and leaves the carts
\* and the catalog as they were
C2_InsufficientStockRejected ==
  (/\ cur.pc = "done" /\ cur.kind = "addItem"
   /\ cur.productId \in DOMAIN pre.products
   /\ cur.quantity > pre.products[cur.productId].stock)
  => /\ carts = pre.carts
     /\ products = pre.products
     /\ (~cur.failed => cur.status = 400)

C2_Witness ==
  /\ cur.pc = "done" /\ cur.kind = "addItem" /\ cur.status = 400
  /\ cur.quantity > pre.products[cur.productId].stock
  /\ CartItemsOf(pre.carts, cur.userId) # << >>

\* a createOrder on a non-empty cart has answered, no downstream call failed
CreateOrderAnswered ==
  /\ cur.pc = "done" /\ cur.kind = "createOrder" /\ ~cur.failed
  /\ CartItemsOf(pre.carts, cur.userId) # << >>

\* one Confirmed order was added; it mirrors the cart at current prices and
\* the cart is empty
OrderMirrorsCart ==
  LET cartItems == CartItemsOf(pre.carts, cur.userId) IN
  /\ cur.status = 200
  /\ Len(orders) = Len(pre.orders) + 1
  /\ SubSeq(orders, 1, Len(pre.orders)) = pre.orders
  /\ LET order == orders[Len(orders)] IN
       /\ order.status = "Confirmed"
       /\ order.userId = cur.userId
       /\ Len(order.items) = Len(cartItems)
       /\ \A k \in 1..Len(cartItems) :
            /\ order.items[k].product.id = cartItems[k].productId
            /\ order.items[k].quantity = cartItems[k].quantity
            /\ order.items[k].itemTotal
                 = products[cartItems[k].productId].price * cartItems[k].quantity
       /\ order.total = SumItemTotals(order.items)
  /\ CartItemsOf(carts, cur.userId) = << >>

\* C3 as stated: createOrder on a non-empty cart persists one Confirmed order
\* mirroring the cart lines, itemTotal = current price * quantity, total = their
\* sum, and leaves the cart empty
C3_AsStated == CreateOrderAnswered => OrderMirrorsCart

\* C3 amended: the same, for a cart whose lines all name products of the catalog
C3_OrderMirrorsCart ==
  (/\ CreateOrderAnswered
   /\ \A k \in 1..Len(CartItemsOf(pre.carts, cur.userId)) :
        CartItemsOf(pre.carts, cur.userId)[k].productId \in DOMAIN pre.products)
  => OrderMirrorsCart

\* an order of two lines has been placed
C3_Witness ==
  /\ CreateOrderAnswered /\ cur.status = 200
  /\ Len(CartItemsOf(pre.carts, cur.userId)) = 2
  /\ orders[Len(orders)].total > orders[Len(orders)].items[1].itemTotal

\* C4: createOrder for a user whose cart is empty or absent is answered 400,
\* persists no order and issues no cart-clear call
C4_EmptyCartRejected ==
  (/\ cur.pc = "done" /\ cur.kind = "createOrder"
   /\ CartItemsOf(pre.carts, cur.userId) = << >>)
  => /\ orders = pre.orders
     /\ cur.clears = 0
     /\ carts = pre.carts
     /\ (~cur.failed => cur.status = 400)

C4_Witness ==
  /\ cur.pc = "done" /\ cur.kind = "createOrder" /\ cur.status = 400
  /\ cur.userId \in DOMAIN pre.carts
  /\ \E u \in Users : u \notin DOMAIN pre.carts

C6_AbsentIdNotFound ==
  (/\ cur.pc = "done" /\ cur.kind \in {"getProduct", "setStock"}
   /\ cur.productId \notin DOMAIN pre.products)
  => /\ products = pre.products
     /\ (~cur.failed => cur.status = 404)

C6_Witness ==
  /\ cur.pc = "done" /\ cur.kind = "setStock" /\ cur.status = 404
  /\ cur.productId = 999

\* C7: after clearCart(u) the cart of u is the empty list, whatever it held
\* before: a cleared cart as much as a filled one
C7_ClearCartIdempotent ==
  (cur.pc = "done" /\ cur.kind = "clearCart" /\ ~cur.failed)
  => /\ cur.status = 200
     /\ cur.userId \in DOMAIN carts
     /\ carts[cur.userId] = CartRecord(cur.userId, << >>)
     /\ CartItemsOf(carts, cur.userId) = << >>

\* clearCart has answered on a cart that an earlier request had already emptied
\* after it had been filled
C7_Witness ==
  /\ cur.pc = "done" /\ cur.kind = "clearCart" /\ cur.status = 200
  /\ cur.userId \in DOMAIN pre.carts
  /\ pre.carts[cur.userId].items = << >>
  /\ remaining = 0

\* C8: replaceCart(u, items) makes getCart(u) return exactly items (the empty
\* list when items is missing) and leaves the carts of the other users alone
C8_ReplaceCartOverwrites ==
  (cur.pc = "done" /\ cur.kind = "replaceCart" /\ ~cur.failed)
  => /\ cur.status = 200
     /\ CartItemsOf(carts, cur.userId) = (IF cur.hasItems THEN cur.items ELSE << >>)
     /\ DOMAIN carts = DOMAIN pre.carts \cup {cur.userId}
     /\ \A v \in DOMAIN pre.carts \ {cur.userId} : carts[v] = pre.carts[v]

C8_Witness ==
  /\ cur.pc = "done" /\ cur.kind = "replaceCart" /\ cur.status = 200
  /\ CartItemsOf(pre.carts, cur.userId) # << >>
  /\ CartItemsOf(pre.carts, cur.userId) # cur.items
  /\ \E v \in Users \ {cur.userId} : CartItemsOf(carts, v) # << >>

\* C9: clearCart and replaceCart leave the catalog as it was
C9_CartWritesKeepStock ==
  (cur.pc = "done" /\ cur.kind \in {"clearCart", "replaceCart"})
  => products = pre.products

\* a cart holding units taken out of the stock has been cleared
C9_Witness ==
  /\ cur.pc = "done" /\ cur.kind = "clearCart" /\ cur.status = 200
  /\ \E k \in 1..Len(CartItemsOf(pre.carts, cur.userId)) :
       LET item == CartItemsOf(pre.carts, cur.userId)[k] IN
         /\ item.productId \in DOMAIN products
         /\ item.quantity > 0
         /\ products[item.productId].stock
              = SeededProducts[item.productId].stock - item.quantity

\* C10: under addItem and the edge service's add, update, remove and clear
\* flows, in any interleaving, no stored cart has two lines for one productId
C10_OneLinePerProduct ==
  \A u \in DOMAIN carts :
    \A j, k \in 1..Len(carts[u].items) :
      carts[u].items[j].productId = carts[u].items[k].productId => j = k

\* an update has rewritten a cart of two lines while another request was in flight
C10_Witness ==
  \E r \in ReqIds :
    /\ reqs[r].kind = "edgeUpdate" /\ reqs[r].pc = "done" /\ reqs[r].puts = 1
    /\ Len(CartItemsOf(carts, reqs[r].userId)) = 2
    /\ \E x \in ReqIds \ {r} : reqs[x].pc \notin {"idle", "done"}

\* C11: an order, once persisted, is never changed or deleted by a later step
\* of any request; its lines keep the prices of its creation
C11_OrdersImmutable ==
  [][\A k \in DOMAIN orders : k \in DOMAIN orders' /\ orders'[k] = orders[k]]_vars

\* an order was persisted and a later createOrder persisted a second order
C11_Witness ==
  /\ Len(orders) = 2
  /\ Len(orders[1].items) > 0
  /\ cur.kind = "createOrder" /\ cur.pc = "done" /\ cur.status = 200

\* C12: through addItem and the edge service's cart add, update, remove and
\* clear flows, the stock of every product stays at or above zero
C12_StockNeverNegative ==
  \A id \in DOMAIN products : products[id].stock >= 0

\* C13: no step of initializeProducts changes a product record that is in the
\* table, whatever is interleaved between its scan and its writes
C13_SeedNeverOverwrites ==
  [][\A r \in ReqIds :
       (reqs[r].kind = "initializeProducts" /\ reqs'[r] # reqs[r])
         => \A id \in DOMAIN products : products'[id] = products[id]]_vars

\* C14: every successful write of setStock leaves the record of its product
\* with the stock of that call and every other field as it was, and changes no
\* other record: after overlapping calls the record holds the stock of the
\* call that wrote last, whatever the calls had read
C14_SetStockLastWriterWins ==
  [][\A r \in ReqIds :
       (/\ reqs[r].kind = "setStock" /\ reqs[r].pc = "ss_put"
        /\ reqs'[r].pc = "done" /\ reqs'[r].status = 200)
         => LET id == reqs[r].productId IN
            /\ products' = [products EXCEPT ![id] = [@ EXCEPT !.stock = reqs[r].stock]]
            /\ [products'[id] EXCEPT !.stock = 0] = [SeededProducts[id] EXCEPT !.stock = 0]]_vars

\* one setStock has written after the other had read the record, and the
\* other, with a different stock, is about to write
C14_Witness ==
  \E r1, r2 \in ReqIds :
    /\ reqs[r1].kind = "setStock" /\ reqs[r1].pc = "done" /\ reqs[r1].status = 200
    /\ reqs[r2].kind = "setStock" /\ reqs[r2].pc = "ss_put"
    /\ reqs[r1].productId = reqs[r2].productId
    /\ reqs[r1].stock # reqs[r2].stock
    /\ products[reqs[r1].productId].stock = reqs[r1].stock
    /\ reqs[r2].result.stock # products[reqs[r2].productId].stock

\* C15: addItem writes the cart before the stock; while the stock write is
\* outstanding (the request may stop there for good) and after it has failed,
\* the cart holds the added quantity and the stock is what it was, and the
\* request leaves the cart so when it ends
C15_CartKeptWhenStockFails ==
  /\ (cur.kind = "addItem" /\ products # pre.products) => cur.puts = 1
  /\ (/\ cur.kind = "addItem" /\ cur.puts = 1
      /\ \/ cur.pc \in {"ss_get", "ss_put"}
         \/ cur.pc = "done" /\ cur.failed)
     => /\ products = pre.products
        /\ QuantityOf(CartItemsOf(carts, cur.userId), cur.productId)
             = QuantityOf(CartItemsOf(pre.carts, cur.userId), cur.productId) + cur.quantity

\* the stock write of an addItem of a positive quantity has failed after the
\* cart was written
C15_Witness ==
  /\ cur.kind = "addItem" /\ cur.pc = "done" /\ cur.failed
  /\ cur.puts = 1 /\ cur.quantity > 0
  /\ cur.status = 500

\* the lines of an order are those of a cart: products and quantities in order
OrderOfCart(order, cartItems) ==
  /\ Len(order.items) = Len(cartItems)
  /\ \A k \in 1..Len(cartItems) :
       /\ order.items[k].product.id = cartItems[k].productId
       /\ order.items[k].quantity = cartItems[k].quantity

\* C16: when createOrder stops or fails at its cart-clear, after the order was
\* persisted, the cart is as it was while the order exists; a createOrder of
\* the same user that then finds the cart of an existing order persists one
\* more order for these lines under an id no earlier order has
C16_RetryPersistsSecondOrder ==
  /\ (/\ cur.kind = "createOrder" /\ cur.orderId # 0
      /\ \/ cur.pc = "co_clearCart"
         \/ cur.pc = "done" /\ cur.failed)
     => /\ carts = pre.carts
        /\ Len(orders) = Len(pre.orders) + 1
        /\ orders[Len(orders)].id = cur.orderId
        /\ OrderOfCart(orders[Len(orders)], CartItemsOf(carts, cur.userId))
  /\ \A j \in DOMAIN pre.orders :
       (/\ cur.kind = "createOrder" /\ cur.pc = "done" /\ ~cur.failed
        /\ CartItemsOf(pre.carts, cur.userId) # << >>
        /\ pre.orders[j].userId = cur.userId
        /\ OrderOfCart(pre.orders[j], CartItemsOf(pre.carts, cur.userId)))
       => /\ Len(orders) = Len(pre.orders) + 1
          /\ orders[j] = pre.orders[j]
          /\ \A k \in DOMAIN pre.orders : orders[Len(orders)].id # pre.orders[k].id
          /\ orders[Len(orders)].userId = cur.userId
          /\ OrderOfCart(orders[Len(orders)], CartItemsOf(pre.carts, cur.userId))

\* the cart-clear of a createOrder had failed, and the retry has persisted a
\* second order for the same cart
C16_Witness ==
  /\ cur.kind = "createOrder" /\ cur.pc = "done" /\ cur.status = 200
  /\ Len(pre.orders) = 1 /\ Len(orders) = 2
  /\ pre.orders[1].userId = cur.userId
  /\ OrderOfCart(pre.orders[1], CartItemsOf(pre.carts, cur.userId))
  /\ orders[2].id # orders[1].id
  /\ orders[2].items = orders[1].items

\* C17: in the product, cart and order services a request whose store
\* operation or downstream call has failed is finished and answered 500; the
\* request issues no further call, so the failed call is not retried
C17_FailuresAnswered500 ==
  \A r \in ReqIds :
    reqs[r].failed => /\ reqs[r].pc = "done"
                      /\ reqs[r].status = 500

\* the call of createOrder to the product service has failed before any
\* order was persisted
C17_Witness ==
  /\ cur.kind = "createOrder" /\ cur.failed /\ cur.status = 500
  /\ cur.orderId = 0
  /\ CartItemsOf(carts, cur.userId) # << >>
  /\ orders = << >>

WithoutLine(items, k) == SubSeq(items, 1, k - 1) \o SubSeq(items, k + 1, Len(items))

\* C20: the edge quantity update of product p to newQuantity, p being in the
\* cart with quantity old: for newQuantity > 0 the stock of p becomes what it
\* was plus (old - newQuantity) and then the line of p gets newQuantity, the
\* other lines staying as and where they were; for newQuantity <= 0 the stock of
\* p becomes what it was plus old and the line is removed; p not being in the
\* cart, neither store is written
C20_EdgeUpdate ==
  LET cartItems == CartItemsOf(pre.carts, cur.userId)
      p == cur.productId
      newQuantity == cur.quantity
      k == FindIndex(cartItems, p)
      written == [pre.products EXCEPT ![p].stock =
                    IF newQuantity > 0 THEN @ + (cartItems[k].quantity - newQuantity)
                    ELSE @ + cartItems[k].quantity] IN
  /\ (cur.kind = "edgeUpdate" /\ cur.pc = "done" /\ ~cur.failed)
     => /\ cur.status = 302
        /\ IF k = 0
             THEN carts = pre.carts /\ products = pre.products /\ cur.puts = 0
             ELSE /\ products = written
                  /\ CartItemsOf(carts, cur.userId)
                       = IF newQuantity > 0
                           THEN [cartItems EXCEPT ![k].quantity = newQuantity]
                           ELSE WithoutLine(cartItems, k)
  /\ (cur.kind = "edgeUpdate" /\ cur.pc = "eu_putCart")
     => carts = pre.carts /\ products = written

\* a cart of two lines has had the quantity of one line raised
C20_Witness ==
  LET cartItems == CartItemsOf(pre.carts, cur.userId)
      k == FindIndex(cartItems, cur.productId) IN
  /\ cur.kind = "edgeUpdate" /\ cur.pc = "done" /\ ~cur.failed
  /\ Len(cartItems) = 2 /\ k # 0
  /\ cur.quantity > 0
  /\ cartItems[k].quantity < cur.quantity
  /\ CartItemsOf(carts, cur.userId)[k].quantity = cur.quantity
  /\ products[cur.productId].stock < pre.products[cur.productId].stock

C21_EdgeRemove ==
  LET cartItems == CartItemsOf(pre.carts, cur.userId)
      p == cur.productId
      k == FindIndex(cartItems, p)
      restored == [pre.products EXCEPT ![p].stock = @ + cartItems[k].quantity] IN
  /\ (cur.kind = "edgeRemove" /\ cur.pc = "done" /\ ~cur.failed)
     => /\ cur.status = 302
        /\ IF k = 0
             THEN carts = pre.carts /\ products = pre.products /\ cur.puts = 0
             ELSE /\ products = restored
                  /\ CartItemsOf(carts, cur.userId) = WithoutLine(cartItems, k)
  /\ (cur.kind = "edgeRemove" /\ cur.pc = "er_putCart")
     => carts = pre.carts /\ products = restored

\* one of the two lines of a cart has been removed
C21_Witness ==
  LET cartItems == CartItemsOf(pre.carts, cur.userId)
      k == FindIndex(cartItems, cur.productId) IN
  /\ cur.kind = "edgeRemove" /\ cur.pc = "done" /\ ~cur.failed
  /\ Len(cartItems) = 2 /\ k # 0
  /\ cartItems[k].quantity > 0
  /\ Len(CartItemsOf(carts, cur.userId)) = 1
  /\ products[cur.productId].stock
       = pre.products[cur.productId].stock + cartItems[k].quantity

\* C22: the edge clear adds to the stock of every product the quantity of its
\* cart line, line after line, and empties the cart after the last restore;
\* while restores are outstanding, and when a product read, a stock write or
\* the clear itself has failed, the cart holds the lines it held
C22_EdgeClear ==
  LET cartItems == CartItemsOf(pre.carts, cur.userId) IN
  /\ (cur.kind = "edgeClear" /\ cur.pc = "done" /\ ~cur.failed)
     => /\ cur.status = 302
        /\ cur.clears = 1
        /\ CartItemsOf(carts, cur.userId) = << >>
  /\ (cur.kind = "edgeClear" /\ cur.clears = 1)
     => products = [id \in DOMAIN pre.products |->
                     [pre.products[id] EXCEPT !.stock = @ + QuantityOf(cartItems, id)]]
  /\ (cur.kind = "edgeClear" /\ (cur.pc # "done" \/ cur.failed))
     => /\ cur.clears = 0
        /\ CartItemsOf(carts, cur.userId) = cartItems

\* the second stock restore of a clear has failed: the stock of the first line
\* is restored and the cart still holds both lines
C22_Witness ==
  LET cartItems == CartItemsOf(pre.carts, cur.userId) IN
  /\ cur.kind = "edgeClear" /\ cur.pc = "done" /\ cur.failed
  /\ Len(cartItems) = 2
  /\ Len(CartItemsOf(carts, cur.userId)) = 2
  /\ products[cartItems[1].productId].stock
       = pre.products[cartItems[1].productId].stock + cartItems[1].quantity
  /\ cartItems[1].quantity # 0
  /\ products[cartItems[2].productId] = pre.products[cartItems[2].productId]

\* C23: createOrder issues its cart-clear only once it has persisted an order
\* in the same request; a request that has persisted none (the cart fetch, a
\* product fetch or the order write failed) has issued no clear and leaves
\* the orders and the carts as they were
C23_ClearOnlyAfterOrder ==
  /\ (cur.kind = "createOrder" /\ cur.clears > 0)
     => /\ cur.orderId # 0
        /\ Len(orders) = Len(pre.orders) + 1
        /\ orders[Len(orders)].id = cur.orderId
        /\ orders[Len(orders)].userId = cur.userId
  /\ (cur.kind = "createOrder" /\ cur.orderId = 0)
     => /\ cur.clears = 0
        /\ orders = pre.orders
        /\ carts = pre.carts

\* a product fetch of createOrder was answered 404: the request ended with no
\* order and the cart as it was
C23_Witness ==
  /\ cur.kind = "createOrder" /\ cur.pc = "done" /\ ~cur.failed
  /\ cur.status = 500 /\ cur.orderId = 0
  /\ Len(CartItemsOf(carts, cur.userId)) > 0
  /\ cur.clears = 0

\* C24: addItem(u, p, q) for a p that is not in the catalog is answered 500
\* and leaves every cart and the whole catalog as they were
C24_AddItemAbsentProduct ==
  (/\ cur.kind = "addItem" /\ cur.pc = "done"
   /\ cur.productId \notin DOMAIN pre.products)
  => /\ cur.status = 500
     /\ cur.puts = 0
     /\ carts = pre.carts
     /\ products = pre.products

\* addItem for the absent id 999 was answered, the user having a cart
C24_Witness ==
  /\ cur.kind = "addItem" /\ cur.pc = "done" /\ ~cur.failed
  /\ cur.productId \notin DOMAIN products
  /\ cur.status = 500
  /\ Len(CartItemsOf(carts, cur.userId)) > 0

RECURSIVE OrderedQuantityOf(_, _)
\* the units of productId the lines of an order hold
OrderedQuantityOf(orderItems, productId) ==
  IF orderItems = << >> THEN 0
  ELSE (IF Head(orderItems).product.id = productId THEN Head(orderItems).quantity ELSE 0)
       + OrderedQuantityOf(Tail(orderItems), productId)

RECURSIVE InCarts(_, _)
\* the units of productId in the carts of the users of a set
InCarts(users, productId) ==
  IF users = {} THEN 0
  ELSE LET u == CHOOSE v \in users : TRUE IN
       QuantityOf(carts[u].items, productId) + InCarts(users \ {u}, productId)

RECURSIVE InOrders(_, _)
\* the units of productId in the first n persisted orders
InOrders(n, productId) ==
  IF n = 0 THEN 0
  ELSE OrderedQuantityOf(orders[n].items, productId) + InOrders(n - 1, productId)

\* C25: between the requests of a run of edge cart operations and createOrder
\* calls, none overlapping and none failing, the stock of every product plus
\* its units in all carts plus its units in all persisted orders is its
\* seeded stock
C25_StockConserved ==
  (cur.pc \in {"idle", "done"})
  => \A p \in DOMAIN products :
       products[p].stock + InCarts(DOMAIN carts, p) + InOrders(Len(orders), p)
         = SeededProducts[p].stock

\* after a checkout the shopper has filled the cart again and changed a
\* quantity
C25_Witness ==
  /\ cur.kind = "edgeUpdate" /\ cur.pc = "done" /\ cur.puts = 1
  /\ Len(orders) = 1
  /\ OrderedQuantityOf(orders[1].items, cur.productId) > 0
  /\ QuantityOf(CartItemsOf(carts, cur.userId), cur.productId) > 0
  /\ products[cur.productId].stock < SeededProducts[cur.productId].stock

\* C26: under any interleaving of addItem requests of positive quantities,
\* the units of a product held in all carts never exceed its seeded stock
C26_NoOverselling ==
  \A p \in DOMAIN products :
    InCarts(DOMAIN carts, p) <= SeededProducts[p].stock

\* C27: when two addItem requests of one user for two different products have
\* both been answered 200, the cart of the user has a line for each of the two
\* products
C27_BothLinesKept ==
  \A r1, r2 \in ReqIds :
    (/\ reqs[r1].kind = "addItem" /\ reqs[r1].pc = "done" /\ reqs[r1].status = 200
     /\ reqs[r2].kind = "addItem" /\ reqs[r2].pc = "done" /\ reqs[r2].status = 200
     /\ reqs[r1].userId = reqs[r2].userId
     /\ reqs[r1].productId # reqs[r2].productId
     /\ orders = << >>)
    => /\ FindIndex(CartItemsOf(carts, reqs[r1].userId), reqs[r1].productId) # 0
       /\ FindIndex(CartItemsOf(carts, reqs[r1].userId), reqs[r2].productId) # 0

\* C28: when the cart-clear of a createOrder empties the cart of u, every line
\* the cart holds at that moment is a line of the order this createOrder
\* persisted, with the same product and quantity
C28_ClearedLinesOrdered ==
  [][\A r \in ReqIds :
       (/\ reqs[r].kind = "createOrder" /\ reqs[r].pc = "co_clearCart"
        /\ reqs'[r].pc = "done" /\ reqs'[r].clears = 1)
         => LET cartItems == CartItemsOf(carts, reqs[r].userId)
                order == orders[reqs[r].orderId] IN
            \A k \in 1..Len(cartItems) :
              \E j \in 1..Len(order.items) :
                /\ order.items[j].product.id = cartItems[k].productId
                /\ order.items[j].quantity = cartItems[k].quantity]_vars

\* C29: a createOrder that was answered 400 or 500 has persisted no order
C29_ErrorMeansNoOrder ==
  (cur.kind = "createOrder" /\ cur.pc = "done" /\ cur.status \in {400, 500})
  => orders = pre.orders

\* C30: while the tabs add, update, remove and clear with positive
\* quantities, no product's stock exceeds the stock it was seeded with
C30_StockNeverAboveSeed ==
  \A p \in DOMAIN products : products[p].stock <= SeededProducts[p].stock

====
